---- MODULE Spec2Model ----
(***************************************************************************)
(* sqlite-pool: a pool of synchronous sqlite connections with              *)
(* transactions, release-timeout abort, audited queries and streaming.     *)
(* Model of src/src/index.ts.  The bounded pool (@databases/connection-    *)
(* pool) is an external collaborator: its acquire / release / timeout /    *)
(* drain behaviour is modelled from the contract the specification gives   *)
(* for it (sections 3, 4.1 and 6); the hooks it is configured with are     *)
(* the ones of index.ts.                                                   *)
(*                                                                         *)
(* Scheduling: JavaScript runs each segment of code between two            *)
(* suspension points (await / yield) atomically, so every action below is  *)
(* one such segment.                                                       *)
(***************************************************************************)
EXTENDS Integers, Sequences, FiniteSets, TLC

\* the largest maxSize the pool is configured with (the test suite's value)
MaxSize == 2
\* number of operations (tx / query / queryStream calls) the callers make
NumOps == 2
\* how many leases may be reclaimed by the release-timeout in one run
MaxTimeouts == 1
\* the longest row sequence the driver returns for a streamed query
MaxRows == 2
\* how many queries / stream steps one transactional function issues
MaxFnSteps == 1

Ops == 1..NumOps
Conns == 1..(MaxSize + MaxTimeouts)
NoConn == 0
NoOp == 0

ErrAborted == "Transaction aborted"
ErrFn == "fn error"
ErrBegin == "BEGIN failed"
ErrCommit == "COMMIT failed"
ErrRollback == "ROLLBACK failed"
ErrDriver == "driver error"
ErrAudit == "audit error"
ErrPool == "pool draining"

VARIABLES
    releaseTimeoutOn, \* poolOptions.releaseTimeoutMilliseconds is configured
    maxSize,          \* poolOptions.maxSize
    pool,             \* the connection pool and the raw connections it opened
    disposeSt,        \* dispose(): "none", "draining", "done"
    kind,             \* per operation: "none" (not called yet), "tx", "query", "stream"
    pc,               \* per operation: where its async function / generator is suspended
    outcome,          \* per operation: "pending", "ok", "closed", "dropped" or the error raised
    log,              \* per operation: what it did on its connection and lease, in order
    race,             \* per tx: how Promise.race settled: "none", "pending", "fn_ok", "fn_err", "aborted"
    fnSt,             \* per tx: the transactional function: "none", "running", "resolved", "rejected"
    fnSteps,          \* per tx: queries / stream calls issued by the function so far
    aborted,          \* per tx: TransactionImplementation.aborted
    ctrl,             \* per raw connection: the tx whose AbortController is attached (connection.controller)
    ts,               \* per tx: its transaction-scoped stream: "none", "created", "iter", "done", "failed"
    nrows,            \* per stream: length of the driver's row sequence
    pos,              \* per stream: rows yielded so far
    yielded,          \* per pool-level stream: the rows its consumer received, in order
    stray,            \* operations that dispatched on a connection whose lease they did not hold
    timeouts          \* release-timeouts fired so far

vars == <<releaseTimeoutOn, maxSize, pool, disposeSt, kind, pc, outcome, log, race, fnSt,
          fnSteps, aborted, ctrl, ts, nrows, pos, yielded, stray, timeouts>>

Min(S) == CHOOSE x \in S : \A y \in S : x <= y

Count(s, e) == Cardinality({i \in 1..Len(s) : s[i] = e})

First(s, e) == IF \E i \in 1..Len(s) : s[i] = e
               THEN Min({i \in 1..Len(s) : s[i] = e}) ELSE 0

----------------------------------------------------------------------------
(* The hooks index.ts gives the pool.                                      *)

\* openConnection: connect(filename, options) yields a fresh open connection
openConnection(st, c) == [st EXCEPT ![c] = "open"]

\* closeConnection: connection.dispose()
closeConnection(st, c) == [st EXCEPT ![c] = "disposed"]

\* (mutant) one controller is shared: the hook aborts every pending race
AbortRaceAll(rc, t) == [o \in Ops |-> IF rc[o] = "pending" THEN "aborted" ELSE rc[o]]

\* (mutant) the hook disposes the connection without aborting the controller
AbortRaceNever(rc, t) == rc

\* onReleaseTimeout, first half: the controller attached to the connection, if
\* any, is aborted; the abort listener of its transaction rejects the race
\* unless the race has settled already
AbortRace(rc, t) ==
    IF t # NoOp /\ rc[t] = "pending" THEN [rc EXCEPT ![t] = "aborted"] ELSE rc

\* onReleaseTimeout, second half: connection.dispose()
TimeoutDispose(st, c) == [st EXCEPT ![c] = "disposed"]

----------------------------------------------------------------------------
(* The pool collaborator.                                                  *)

\* (mutant) poolOptions are not handed to the pool, which keeps a larger limit
PoolLimitIgnored == MaxSize + 1

\* createBaseConnectionPool({..., ...poolOptions}): the pool gets the caller's maxSize
PoolLimit == maxSize

PoolInit ==
    [size |-> 0, idle |-> {}, waiters |-> <<>>, draining |-> FALSE, opened |-> 0,
     st |-> [c \in Conns |-> "unopened"],
     lease |-> [o \in Ops |-> "none"],
     conn |-> [o \in Ops |-> NoConn]]

PoolGrant(p, o, c) == [p EXCEPT !.lease[o] = "held", !.conn[o] = c]

PoolOpen(p) ==
    [p EXCEPT !.opened = @ + 1, !.size = @ + 1, !.st = openConnection(@, p.opened + 1)]

getConnection(p, o) ==
    IF p.draining THEN [p EXCEPT !.lease[o] = "refused"]
    ELSE IF p.idle # {}
         THEN LET c == Min(p.idle) IN PoolGrant([p EXCEPT !.idle = @ \ {c}], o, c)
    ELSE IF p.size < PoolLimit
         THEN LET q == PoolOpen(p) IN PoolGrant(q, o, q.opened)
    ELSE [p EXCEPT !.waiters = Append(@, o), !.lease[o] = "waiting"]

\* a connection left the pool: the first waiter, if any, gets a new one
PoolShrink(p) ==
    LET q == [p EXCEPT !.size = @ - 1] IN
    IF q.waiters # <<>> /\ ~q.draining
    THEN LET r == PoolOpen(q) IN
         PoolGrant([r EXCEPT !.waiters = Tail(@)], Head(q.waiters), r.opened)
    ELSE q

\* (mutant) release() returns the connection also when the release-timeout
\* has reclaimed the lease
releaseReclaimed(p, o) ==
    IF p.lease[o] \in {"held", "timedout"}
    THEN LET c == p.conn[o]
             q == [p EXCEPT !.lease[o] = "released"] IN
         IF q.waiters # <<>>
         THEN PoolGrant([q EXCEPT !.waiters = Tail(@)], Head(q.waiters), c)
         ELSE [q EXCEPT !.idle = @ \cup {c}]
    ELSE p

\* PoolConnection.release(): back to the pool; a no-op on a lease the
\* release-timeout has reclaimed
release(p, o) ==
    IF p.lease[o] = "held"
    THEN LET c == p.conn[o]
             q == [p EXCEPT !.lease[o] = "released"] IN
         IF q.draining THEN PoolShrink([q EXCEPT !.st = closeConnection(@, c)])
         ELSE IF q.waiters # <<>>
              THEN PoolGrant([q EXCEPT !.waiters = Tail(@)], Head(q.waiters), c)
         ELSE [q EXCEPT !.idle = @ \cup {c}]
    ELSE p

\* the lease of o is reclaimed: its connection is discarded, not reused
PoolExpire(p, o) ==
    PoolShrink([p EXCEPT !.lease[o] = "timedout",
                         !.st = TimeoutDispose(@, p.conn[o])])

\* drain(): no further acquisitions, waiters rejected, idle connections closed
drain(p) ==
    [p EXCEPT !.draining = TRUE,
              !.waiters = <<>>,
              !.lease = [o \in Ops |-> IF p.lease[o] = "waiting" THEN "refused" ELSE p.lease[o]],
              !.st = [c \in Conns |-> IF c \in p.idle THEN closeConnection(p.st, c)[c] ELSE p.st[c]],
              !.idle = {},
              !.size = @ - Cardinality(p.idle)]

Held(o) == pool.lease[o] = "held"

\* the synchronous driver runs a statement: only on an open connection
DriverOk(c, ok) == pool.st[c] = "open" /\ ok

----------------------------------------------------------------------------
Init ==
    /\ releaseTimeoutOn \in BOOLEAN
    /\ maxSize \in 1..MaxSize
    /\ pool = PoolInit
    /\ disposeSt = "none"
    /\ kind = [o \in Ops |-> "none"]
    /\ pc = [o \in Ops |-> "idle"]
    /\ outcome = [o \in Ops |-> "pending"]
    /\ log = [o \in Ops |-> <<>>]
    /\ race = [o \in Ops |-> "none"]
    /\ fnSt = [o \in Ops |-> "none"]
    /\ fnSteps = [o \in Ops |-> 0]
    /\ aborted = [o \in Ops |-> FALSE]
    /\ ctrl = [c \in Conns |-> NoOp]
    /\ ts = [o \in Ops |-> "none"]
    /\ nrows = [o \in Ops |-> 0]
    /\ pos = [o \in Ops |-> 0]
    /\ yielded = [o \in Ops |-> <<>>]
    /\ stray = {}
    /\ timeouts = 0

\* operations are called in the order of their numbers
Callable(o) == kind[o] = "none" /\ \A q \in Ops : q < o => kind[q] # "none"

Done(o) == [pc EXCEPT ![o] = "done"]

Logged(o, evs) == [log EXCEPT ![o] = @ \o evs]

\* a dispatch by o on its connection: o strays if it does not hold the lease
Strayed(o) == IF Held(o) THEN stray ELSE stray \cup {o}

----------------------------------------------------------------------------
(* tx(fn)                                                                  *)

\* tx, line 155: getConnection() is called and awaited
TxCall(o) ==
    /\ Callable(o)
    /\ kind' = [kind EXCEPT ![o] = "tx"]
    /\ pc' = [pc EXCEPT ![o] = "acquire"]
    /\ pool' = getConnection(pool, o)
    /\ UNCHANGED <<releaseTimeoutOn, maxSize, disposeSt, outcome, log, race, fnSt, fnSteps,
                   aborted, ctrl, ts, nrows, pos, stray, timeouts, yielded>>

\* the continuation of tx may run once the awaited getConnection() has settled
TxMayBegin(o) == pc[o] = "acquire" /\ pool.lease[o] \in {"held", "refused"}

\* (mutant) the error of a failed ROLLBACK escapes the catch block
TxCatchRollback(e, rb) == IF rb # "none" THEN rb ELSE e

\* catch (e): the error that tx rethrows; rb is the error of the ROLLBACK, or "none"
TxCatch(e, rb) == e

\* (mutant) tx leaves without releasing its lease
TxFinallyMissing(p, lg, o) == [pool |-> p, log |-> lg]

\* finally: poolConnection.release()
TxFinally(p, lg, o) == [pool |-> release(p, o), log |-> Append(lg, "release")]

\* the failure path of tx: catch (ROLLBACK, its error swallowed, rethrow) and finally
TxFail(o, pre, e, rOk) ==
    LET c == pool.conn[o]
        rb == IF DriverOk(c, rOk) THEN "none" ELSE ErrRollback
        f == TxFinally(pool, log[o] \o pre \o <<"ROLLBACK">>, o) IN
    /\ pool' = f.pool
    /\ log' = [log EXCEPT ![o] = f.log]
    /\ outcome' = [outcome EXCEPT ![o] = TxCatch(e, rb)]
    /\ pc' = Done(o)

\* (mutant) COMMIT is dispatched however the race settled
TxCommitsAlways(r) == TRUE

\* COMMIT is dispatched when the race resolved with fn's result
TxCommits(r) == r = "fn_ok"

\* the error the race rejected with
RaceError(r) == IF r = "aborted" THEN ErrAborted ELSE ErrFn

\* tx, lines 156-167: BEGIN, the controller, the transaction object, fn(tx)
\* is invoked and raced against the abort signal
TxBegin(o) ==
    /\ kind[o] = "tx"
    /\ TxMayBegin(o)
    /\ IF pool.lease[o] = "refused"
       THEN /\ outcome' = [outcome EXCEPT ![o] = ErrPool]
            /\ pc' = Done(o)
            /\ UNCHANGED <<pool, log, race, fnSt, ctrl>>
       ELSE \E bOk, rOk \in BOOLEAN :
            LET c == pool.conn[o] IN
            IF DriverOk(c, bOk)
            THEN /\ log' = Logged(o, <<"BEGIN", "fn">>)
                 /\ ctrl' = [ctrl EXCEPT ![c] = o]
                 /\ race' = [race EXCEPT ![o] = "pending"]
                 /\ fnSt' = [fnSt EXCEPT ![o] = "running"]
                 /\ pc' = [pc EXCEPT ![o] = "race"]
                 /\ UNCHANGED <<pool, outcome>>
            ELSE /\ TxFail(o, <<"BEGIN_failed">>, ErrBegin, rOk)
                 /\ UNCHANGED <<race, fnSt, ctrl>>
    /\ UNCHANGED <<releaseTimeoutOn, maxSize, disposeSt, kind, fnSteps, aborted, ts, nrows,
                   pos, stray, timeouts, yielded>>

\* tx, lines 168-179: the race has settled; COMMIT and return, or catch; finally
TxContinue(o) ==
    /\ kind[o] = "tx"
    /\ pc[o] = "race"
    /\ race[o] \notin {"none", "pending"}
    /\ \E cOk, rOk \in BOOLEAN :
         LET c == pool.conn[o] IN
         IF TxCommits(race[o])
         THEN IF DriverOk(c, cOk)
              THEN LET f == TxFinally(pool, Append(log[o], "COMMIT"), o) IN
                   /\ pool' = f.pool
                   /\ log' = [log EXCEPT ![o] = f.log]
                   /\ outcome' = [outcome EXCEPT ![o] = "ok"]
                   /\ pc' = Done(o)
              ELSE TxFail(o, <<"COMMIT_failed">>, ErrCommit, rOk)
         ELSE TxFail(o, <<>>, RaceError(race[o]), rOk)
    /\ UNCHANGED <<releaseTimeoutOn, maxSize, disposeSt, kind, race, fnSt, fnSteps, aborted,
                   ctrl, ts, nrows, pos, stray, timeouts, yielded>>

----------------------------------------------------------------------------
(* The transactional function and the interface it is given.               *)

\* (mutant) the race follows whichever promise settled last
SettleLast(rc, o, how) == [rc EXCEPT ![o] = how]

\* how the race reacts to fn settling: the first to settle wins
Settle(rc, o, how) == IF rc[o] = "pending" THEN [rc EXCEPT ![o] = how] ELSE rc

\* fn's promise resolves
FnResolve(o) ==
    /\ fnSt[o] = "running"
    /\ fnSt' = [fnSt EXCEPT ![o] = "resolved"]
    /\ race' = Settle(race, o, "fn_ok")
    /\ UNCHANGED <<releaseTimeoutOn, maxSize, pool, disposeSt, kind, pc, outcome, log, fnSteps,
                   aborted, ctrl, ts, nrows, pos, stray, timeouts, yielded>>

\* fn's promise rejects
FnReject(o) ==
    /\ fnSt[o] = "running"
    /\ fnSt' = [fnSt EXCEPT ![o] = "rejected"]
    /\ race' = Settle(race, o, "fn_err")
    /\ UNCHANGED <<releaseTimeoutOn, maxSize, pool, disposeSt, kind, pc, outcome, log, fnSteps,
                   aborted, ctrl, ts, nrows, pos, stray, timeouts, yielded>>

\* TransactionImplementation.query: the aborted check, the audit, the dispatch
TxQueryEvents(ab) == IF ab THEN <<"refused">> ELSE <<"audit", "dispatch">>

\* fn calls tx.query(q)
FnQuery(o) ==
    /\ fnSt[o] = "running"
    /\ fnSteps[o] < MaxFnSteps
    /\ fnSteps' = [fnSteps EXCEPT ![o] = @ + 1]
    /\ log' = Logged(o, TxQueryEvents(aborted[o]))
    /\ stray' = IF aborted[o] THEN stray ELSE Strayed(o)
    /\ UNCHANGED <<releaseTimeoutOn, maxSize, pool, disposeSt, kind, pc, outcome, race, fnSt,
                   aborted, ctrl, ts, nrows, pos, timeouts, yielded>>

\* fn calls tx.queryStream(q): the audit runs at the call, the generator is
\* created suspended at its start
FnStreamOpen(o) ==
    /\ fnSt[o] = "running"
    /\ fnSteps[o] < MaxFnSteps
    /\ ts[o] = "none"
    /\ fnSteps' = [fnSteps EXCEPT ![o] = @ + 1]
    /\ ts' = [ts EXCEPT ![o] = "created"]
    /\ log' = Logged(o, <<"audit">>)
    /\ UNCHANGED <<releaseTimeoutOn, maxSize, pool, disposeSt, kind, pc, outcome, race, fnSt,
                   aborted, ctrl, nrows, pos, stray, timeouts, yielded>>

\* (mutant) the loop yields without looking at the aborted flag
TxStreamStepUnchecked(ab, more) == IF ~more THEN "done" ELSE "iter"

\* transactionalQueryStream, lines 36-41: one turn of the loop; the driver's
\* sequence is asked for its next row, then the aborted flag is checked, then
\* the row is yielded
TxStreamStep(ab, more) ==
    IF ~more THEN "done" ELSE IF ab THEN "aborted" ELSE "iter"

\* transactionalQueryStream: a next() on the transaction-scoped stream, by fn or
\* by whoever fn handed the stream to.  The first next() dispatches the query;
\* the aborted flag is checked before each row is yielded.
FnStreamNext(o) ==
    /\ ts[o] \in {"created", "iter"}
    /\ \E ok \in BOOLEAN, n \in 0..MaxRows :
         LET c == pool.conn[o]
             total == IF ts[o] = "created" THEN n ELSE nrows[o]
             good == IF ts[o] = "created" THEN DriverOk(c, ok) ELSE ok IN
         /\ log' = IF ts[o] = "created" THEN Logged(o, <<"dispatch">>) ELSE log
         /\ stray' = IF ts[o] = "created" THEN Strayed(o) ELSE stray
         /\ IF ~good
            THEN ts' = [ts EXCEPT ![o] = "failed"] /\ UNCHANGED <<nrows, pos>>
            ELSE LET step == TxStreamStep(aborted[o], pos[o] < total) IN
                 /\ ts' = [ts EXCEPT ![o] = step]
                 /\ nrows' = [nrows EXCEPT ![o] = total]
                 /\ pos' = [pos EXCEPT ![o] = IF step = "iter" THEN @ + 1 ELSE @]
    /\ UNCHANGED <<releaseTimeoutOn, maxSize, pool, disposeSt, kind, pc, outcome, race, fnSt,
                   fnSteps, aborted, ctrl, timeouts, yielded>>

\* TransactionImplementation.aborted, line 46: a public field of the object fn
\* is given; fn assigns it while it runs
AbortedSet(o) ==
    /\ fnSt[o] = "running"
    /\ ~aborted[o]
    /\ aborted' = [aborted EXCEPT ![o] = TRUE]
    /\ log' = Logged(o, <<"aborted">>)
    /\ UNCHANGED <<releaseTimeoutOn, maxSize, pool, disposeSt, kind, pc, outcome, race, fnSt,
                   fnSteps, ctrl, ts, nrows, pos, yielded, stray, timeouts>>

----------------------------------------------------------------------------
(* The release-timeout.                                                    *)

\* the timer of a lease fires between tasks, never within a chain of
\* continuations: not while the holder is about to resume from its await
TimerMayFire(o) ==
    /\ Held(o)
    /\ \/ kind[o] = "tx" /\ pc[o] = "race"
       \/ kind[o] = "stream" /\ pc[o] # "awaiting"

\* the lease of o is held past releaseTimeoutMilliseconds: the pool runs the
\* onReleaseTimeout hook of index.ts and discards the connection
Timeout(o) ==
    /\ releaseTimeoutOn
    /\ timeouts < MaxTimeouts
    /\ TimerMayFire(o)
    /\ timeouts' = timeouts + 1
    /\ race' = AbortRace(race, ctrl[pool.conn[o]])
    /\ pool' = PoolExpire(pool, o)
    /\ UNCHANGED <<releaseTimeoutOn, maxSize, disposeSt, kind, pc, outcome, log, fnSt, fnSteps,
                   aborted, ctrl, ts, nrows, pos, stray, yielded>>

----------------------------------------------------------------------------
(* query(q)                                                                *)

\* query, line 139: getConnection() is called and awaited
QueryCall(o) ==
    /\ Callable(o)
    /\ kind' = [kind EXCEPT ![o] = "query"]
    /\ pc' = [pc EXCEPT ![o] = "acquire"]
    /\ pool' = getConnection(pool, o)
    /\ UNCHANGED <<releaseTimeoutOn, maxSize, disposeSt, outcome, log, race, fnSt, fnSteps,
                   aborted, ctrl, ts, nrows, pos, stray, timeouts, yielded>>

\* (mutant) the statement is dispatched although the audit threw
QueryTryAuditIgnored(aOk, qOk) ==
    IF ~aOk THEN [ev |-> <<"audit_failed", "dispatch">>, res |-> ErrAudit]
    ELSE IF ~qOk THEN [ev |-> <<"audit", "dispatch_failed">>, res |-> ErrDriver]
    ELSE [ev |-> <<"audit", "dispatch">>, res |-> "ok"]

\* query, lines 140-143: the audit, then the dispatch; what the try block
\* did and how it ended
QueryTry(aOk, qOk) ==
    IF ~aOk THEN [ev |-> <<"audit_failed">>, res |-> ErrAudit]
    ELSE IF ~qOk THEN [ev |-> <<"audit", "dispatch_failed">>, res |-> ErrDriver]
    ELSE [ev |-> <<"audit", "dispatch">>, res |-> "ok"]

\* (mutant) query releases its lease twice
QueryFinallyTwice(p, lg, o) ==
    [pool |-> release(release(p, o), o), log |-> lg \o <<"release", "release">>]

\* query, lines 144-146: finally poolConnection.release()
QueryFinally(p, lg, o) == [pool |-> release(p, o), log |-> Append(lg, "release")]

\* query, lines 140-147, run when getConnection() has settled
QueryRun(o) ==
    /\ kind[o] = "query"
    /\ pc[o] = "acquire"
    /\ pool.lease[o] \in {"held", "refused"}
    /\ IF pool.lease[o] = "refused"
       THEN /\ outcome' = [outcome EXCEPT ![o] = ErrPool]
            /\ UNCHANGED <<pool, log>>
       ELSE \E aOk, qOk \in BOOLEAN :
            LET t == QueryTry(aOk, DriverOk(pool.conn[o], qOk))
                f == QueryFinally(pool, log[o] \o t.ev, o) IN
            /\ pool' = f.pool
            /\ log' = [log EXCEPT ![o] = f.log]
            /\ outcome' = [outcome EXCEPT ![o] = t.res]
    /\ pc' = Done(o)
    /\ UNCHANGED <<releaseTimeoutOn, maxSize, disposeSt, kind, race, fnSt, fnSteps, aborted,
                   ctrl, ts, nrows, pos, stray, timeouts, yielded>>

----------------------------------------------------------------------------
(* queryStream(q) at pool level                                            *)

\* queryStream, lines 149-152: the audit, getConnection() is called (not
\* awaited), the generator is created suspended at its start
StreamCall(o) ==
    /\ Callable(o)
    /\ kind' = [kind EXCEPT ![o] = "stream"]
    /\ pc' = [pc EXCEPT ![o] = "created"]
    /\ log' = Logged(o, <<"audit">>)
    /\ pool' = getConnection(pool, o)
    /\ UNCHANGED <<releaseTimeoutOn, maxSize, disposeSt, outcome, race, fnSt, fnSteps,
                   aborted, ctrl, ts, nrows, pos, stray, timeouts, yielded>>

\* the consumer's first next(): the generator starts and awaits the connection
StreamStart(o) ==
    /\ kind[o] = "stream"
    /\ pc[o] = "created"
    /\ pc' = [pc EXCEPT ![o] = "awaiting"]
    /\ UNCHANGED <<releaseTimeoutOn, maxSize, pool, disposeSt, kind, outcome, log, race, fnSt,
                   fnSteps, aborted, ctrl, ts, nrows, pos, stray, timeouts, yielded>>

\* the driver's row sequence for a query with n result rows: row i is the
\* i-th row of the table, in the order the rows were inserted
DriverRows(n) == [i \in 1..n |-> i]

\* (mutant) the generator yields the first row over and over
StreamYieldFirst(ys, rows) == Append(ys, rows[1])

\* queryStream generator, lines 76-78: the loop yields the driver's next row
StreamYield(ys, rows) == Append(ys, rows[Len(ys) + 1])

\* queryStream generator, lines 79-81: finally poolConnection.release()
StreamFinally(p, lg, o) == [pool |-> release(p, o), log |-> Append(lg, "release")]

\* the generator leaves its try block: finally, and the stream is over
StreamEnd(o, evs, res) ==
    LET f == StreamFinally(pool, log[o] \o evs, o) IN
    /\ pool' = f.pool
    /\ log' = [log EXCEPT ![o] = f.log]
    /\ outcome' = [outcome EXCEPT ![o] = res]
    /\ pc' = Done(o)

\* queryStream generator, lines 74-77: the connection arrived; the query is
\* dispatched and the first row, if any, is yielded
StreamResume(o) ==
    /\ kind[o] = "stream"
    /\ pc[o] = "awaiting"
    /\ pool.lease[o] \in {"held", "refused"}
    /\ IF pool.lease[o] = "refused"
       THEN /\ outcome' = [outcome EXCEPT ![o] = ErrPool]
            /\ pc' = Done(o)
            /\ UNCHANGED <<pool, log, nrows, pos, yielded, stray>>
       ELSE \E ok \in BOOLEAN, n \in 0..MaxRows :
            /\ stray' = Strayed(o)
            /\ IF ~DriverOk(pool.conn[o], ok)
               THEN StreamEnd(o, <<"dispatch_failed">>, ErrDriver)
                    /\ UNCHANGED <<nrows, pos, yielded>>
               ELSE IF n = 0
               THEN StreamEnd(o, <<"dispatch">>, "ok") /\ UNCHANGED <<nrows, pos, yielded>>
               ELSE /\ log' = Logged(o, <<"dispatch">>)
                    /\ nrows' = [nrows EXCEPT ![o] = n]
                    /\ pos' = [pos EXCEPT ![o] = 1]
                    /\ yielded' = [yielded EXCEPT ![o] = StreamYield(@, DriverRows(n))]
                    /\ pc' = [pc EXCEPT ![o] = "yielded"]
                    /\ UNCHANGED <<pool, outcome>>
    /\ UNCHANGED <<releaseTimeoutOn, maxSize, disposeSt, kind, race, fnSt, fnSteps, aborted,
                   ctrl, ts, timeouts>>

\* queryStream generator, lines 76-78: a later next(): the driver's sequence
\* gives the next row, ends, or raises
StreamNext(o) ==
    /\ kind[o] = "stream"
    /\ pc[o] = "yielded"
    /\ \E ok \in BOOLEAN :
         IF ~ok
         THEN StreamEnd(o, <<>>, ErrDriver) /\ UNCHANGED <<pos, yielded>>
         ELSE IF pos[o] >= nrows[o]
         THEN StreamEnd(o, <<>>, "ok") /\ UNCHANGED <<pos, yielded>>
         ELSE /\ pos' = [pos EXCEPT ![o] = @ + 1]
              /\ yielded' = [yielded EXCEPT ![o] = StreamYield(@, DriverRows(nrows[o]))]
              /\ UNCHANGED <<pool, log, outcome, pc>>
    /\ UNCHANGED <<releaseTimeoutOn, maxSize, disposeSt, kind, race, fnSt, fnSteps, aborted,
                   ctrl, ts, nrows, stray, timeouts>>

\* the consumer closes the stream (break, return()): a generator suspended at
\* a yield runs its finally block, one suspended at its start just completes
StreamReturn(o) ==
    /\ kind[o] = "stream"
    /\ pc[o] \in {"created", "yielded"}
    /\ IF pc[o] = "yielded"
       THEN StreamEnd(o, <<>>, "closed")
       ELSE /\ outcome' = [outcome EXCEPT ![o] = "closed"]
            /\ pc' = Done(o)
            /\ UNCHANGED <<pool, log>>
    /\ UNCHANGED <<releaseTimeoutOn, maxSize, disposeSt, kind, race, fnSt, fnSteps, aborted,
                   ctrl, ts, nrows, pos, stray, timeouts, yielded>>

\* the consumer drops the stream without closing it: the generator stays
\* suspended for ever
StreamDrop(o) ==
    /\ kind[o] = "stream"
    /\ pc[o] \in {"created", "yielded"}
    /\ outcome' = [outcome EXCEPT ![o] = "dropped"]
    /\ pc' = [pc EXCEPT ![o] = "dropped"]
    /\ UNCHANGED <<releaseTimeoutOn, maxSize, pool, disposeSt, kind, log, race, fnSt, fnSteps,
                   aborted, ctrl, ts, nrows, pos, stray, timeouts, yielded>>

----------------------------------------------------------------------------
(* dispose()                                                               *)

\* dispose, line 183: pool.drain() is called and awaited
DisposeCall ==
    /\ disposeSt = "none"
    /\ disposeSt' = "draining"
    /\ pool' = drain(pool)
    /\ UNCHANGED <<releaseTimeoutOn, maxSize, kind, pc, outcome, log, race, fnSt, fnSteps,
                   aborted, ctrl, ts, nrows, pos, stray, timeouts, yielded>>

\* drain() resolves when no connection is left in the pool
Drained(p) == p.draining /\ p.size = 0

\* dispose, line 184: the awaited drain() has resolved
DisposeDone ==
    /\ disposeSt = "draining"
    /\ Drained(pool)
    /\ disposeSt' = "done"
    /\ UNCHANGED <<releaseTimeoutOn, maxSize, pool, kind, pc, outcome, log, race, fnSt, fnSteps,
                   aborted, ctrl, ts, nrows, pos, stray, timeouts, yielded>>

----------------------------------------------------------------------------
Next ==
    \/ \E o \in Ops : TxCall(o)
    \/ \E o \in Ops : TxBegin(o)
    \/ \E o \in Ops : TxContinue(o)
    \/ \E o \in Ops : FnResolve(o)
    \/ \E o \in Ops : FnReject(o)
    \/ \E o \in Ops : FnQuery(o)
    \/ \E o \in Ops : FnStreamOpen(o)
    \/ \E o \in Ops : FnStreamNext(o)
    \/ \E o \in Ops : Timeout(o)
    \/ \E o \in Ops : QueryCall(o)
    \/ \E o \in Ops : QueryRun(o)
    \/ \E o \in Ops : StreamCall(o)
    \/ \E o \in Ops : StreamStart(o)
    \/ \E o \in Ops : StreamResume(o)
    \/ \E o \in Ops : StreamNext(o)
    \/ \E o \in Ops : StreamReturn(o)
    \/ \E o \in Ops : StreamDrop(o)
    \/ DisposeCall
    \/ DisposeDone

Spec == Init /\ [][Next]_vars

\* the program with callers that also assign the aborted field of the
\* transaction object they were given, on a pool of a single connection
FlagInit == Init /\ maxSize = 1

FlagNext == Next \/ \E o \in Ops : AbortedSet(o)

FlagSpec == FlagInit /\ [][FlagNext]_vars

\* the event loop runs every continuation whose awaited promise has settled
FairSpec == Spec /\ \A o \in Ops : WF_vars(TxContinue(o))

----------------------------------------------------------------------------
(* Properties.                                                             *)

Txs == {o \in Ops : kind[o] = "tx"}
Queries == {o \in Ops : kind[o] = "query"}
Streams == {o \in Ops : kind[o] = "stream"}

\* the operation was given a connection by the pool
Acquired(o) == pool.conn[o] # NoConn

Releases(o) == Count(log[o], "release")
Dispatches(o) == Count(log[o], "dispatch") + Count(log[o], "dispatch_failed")
Audits(o) == Count(log[o], "audit")

Has(o, e) == \E i \in 1..Len(log[o]) : log[o][i] = e

Control == {"BEGIN", "BEGIN_failed", "COMMIT", "COMMIT_failed", "ROLLBACK"}

\* C1: every tx(fn) that obtained a connection calls release() on its lease
\* exactly once by the time it settles, whichever way it ends, never earlier,
\* and only directly after its COMMIT or ROLLBACK attempt; afterwards the
\* lease is no longer held and no transaction-control statement follows.
C1_TxReleasesOnce ==
    \A o \in Txs :
      /\ (pc[o] = "done" /\ Acquired(o)) =>
            Releases(o) = 1 /\ pool.lease[o] \in {"released", "timedout"}
      /\ pc[o] # "done" => Releases(o) = 0
      /\ \A i \in 1..Len(log[o]) :
            log[o][i] = "release" =>
              /\ i > 1 /\ log[o][i - 1] \in {"COMMIT", "ROLLBACK"}
              /\ \A j \in (i + 1)..Len(log[o]) : log[o][j] \notin Control

\* a transaction the release-timeout aborted has released its lease once
C1_Witness ==
    \E o \in Txs : pc[o] = "done" /\ outcome[o] = ErrAborted
                   /\ pool.lease[o] = "timedout" /\ Releases(o) = 1

\* the release-timeout fired on the lease of a transaction whose function has
\* not settled
TimedOutUnsettled(o) ==
    kind[o] = "tx" /\ pc[o] = "race" /\ fnSt[o] = "running" /\ pool.lease[o] = "timedout"

\* C2: once the release-timeout has fired on the lease of a transaction whose
\* function has not settled, tx() eventually rejects with "Transaction aborted"
\* (not with the error of the ROLLBACK that fails on the closed connection).
C2_AbortedTxRejects ==
    \A o \in Ops : TimedOutUnsettled(o) ~> (outcome[o] = ErrAborted)

\* tx() rejected with "Transaction aborted" while its function never settled
C2_Witness ==
    \E o \in Txs : outcome[o] = ErrAborted /\ fnSt[o] = "running"
                   /\ pool.st[pool.conn[o]] = "disposed"

\* the first failure inside the try block of tx, read off what happened
Original(o) ==
    IF Has(o, "BEGIN_failed") THEN ErrBegin
    ELSE IF race[o] = "aborted" THEN ErrAborted
    ELSE IF race[o] = "fn_err" THEN ErrFn
    ELSE IF Has(o, "COMMIT_failed") THEN ErrCommit
    ELSE "none"

\* C3: a settled tx() in which BEGIN failed, the race rejected (fn or abort) or
\* COMMIT failed has attempted exactly one ROLLBACK, after the failure, and
\* rejects with that original failure, never with the ROLLBACK's own error;
\* a tx() without such a failure attempts no ROLLBACK.
C3_OriginalErrorPropagates ==
    \A o \in Txs :
      /\ (pc[o] = "done" /\ Original(o) # "none") =>
            /\ outcome[o] = Original(o)
            /\ Count(log[o], "ROLLBACK") = 1
            /\ Has(o, "COMMIT_failed") =>
                  First(log[o], "ROLLBACK") = First(log[o], "COMMIT_failed") + 1
            /\ Has(o, "BEGIN_failed") =>
                  First(log[o], "ROLLBACK") = First(log[o], "BEGIN_failed") + 1
      /\ (pc[o] = "done" /\ Original(o) = "none") =>
            outcome[o] \in {"ok", ErrPool} /\ ~Has(o, "ROLLBACK")
      /\ pc[o] # "done" => ~Has(o, "ROLLBACK")
      /\ outcome[o] # ErrRollback

\* the abort won the race, the ROLLBACK ran on the connection the hook had
\* closed (so it failed), fn rejected later, and tx() rejected with the abort
C3_Witness ==
    \E o \in Txs : pc[o] = "done" /\ outcome[o] = ErrAborted /\ Has(o, "ROLLBACK")
                   /\ pool.st[pool.conn[o]] = "disposed" /\ fnSt[o] = "rejected"

LeasesHeld == {o \in Ops : Held(o)}
OpenConns == {c \in Conns : pool.st[c] = "open"}

C4_Bounded ==
    /\ Cardinality(OpenConns) <= maxSize
    /\ Cardinality(LeasesHeld) <= maxSize
    /\ \A o \in Txs :
         /\ fnSt[o] # "none" => Acquired(o) /\ Has(o, "BEGIN")
         /\ pool.lease[o] = "waiting" => pc[o] = "acquire" /\ log[o] = <<>>

C4_Suspends ==
    \A o \in Ops :
      /\ (kind[o] = "none" /\ kind'[o] = "tx" /\ ~pool.draining
          /\ Cardinality(LeasesHeld) = maxSize) => pool'.lease[o] = "waiting"
      /\ (pool.lease[o] = "waiting" /\ pool'.lease[o] = "held") =>
            \E q \in Ops \ {o} : pool.lease[q] = "held"
                                 /\ pool'.lease[q] \in {"released", "timedout"}

\* C4: at most maxSize raw connections are open and at most maxSize leases are
\* held, so at most maxSize transactions run on a live lease; a transactional
\* function has started only on an acquired connection; a tx() called while
\* maxSize leases are held waits in acquire, having done nothing, and gets its
\* lease only in a step in which an earlier lease ends.
C4_AtMostMaxSize == []C4_Bounded /\ [][C4_Suspends]_vars

\* a tx() waits while maxSize leases are held by running transactions
C4_Witness ==
    /\ Cardinality({o \in Txs : Held(o) /\ pc[o] = "race"}) = maxSize
    /\ \E o \in Txs : pool.lease[o] = "waiting"

\* C5: tx() resolves only after BEGIN was dispatched, fn resolved (and won the
\* race), COMMIT succeeded and the lease was then released, in this order;
\* COMMIT is attempted at most once, and never unless fn's resolution won the race.
C5_ResolvesOnlyCommitted ==
    \A o \in Txs :
      /\ outcome[o] = "ok" =>
            /\ fnSt[o] = "resolved" /\ race[o] = "fn_ok"
            /\ First(log[o], "BEGIN") = 1
            /\ First(log[o], "fn") = 2
            /\ First(log[o], "COMMIT") > 2
            /\ First(log[o], "release") = First(log[o], "COMMIT") + 1
      /\ Count(log[o], "COMMIT") + Count(log[o], "COMMIT_failed") <= 1
      /\ (Has(o, "COMMIT") \/ Has(o, "COMMIT_failed")) =>
            fnSt[o] = "resolved" /\ race[o] = "fn_ok"
      /\ Has(o, "COMMIT") => outcome[o] = "ok"

\* a transaction that issued a query resolved
C5_Witness ==
    \E o \in Txs : outcome[o] = "ok" /\ Dispatches(o) = 1

\* C6: every pool-level queryStream that acquired a connection and ended
\* (exhausted, closed by the consumer, or failed in the driver) has released
\* its lease exactly once and no longer holds it.
C6_StreamReleasesOnce ==
    \A o \in Streams :
      /\ Releases(o) <= 1
      /\ (Acquired(o) /\ outcome[o] \in {"ok", "closed", ErrDriver}) =>
            Releases(o) = 1 /\ ~Held(o)

\* C7: a settled query(q) that acquired a connection has audited, dispatched
\* and released, in this order and once each (or released right after a
\* failed audit); its lease is back in the pool; it resolves when the dispatch
\* succeeded and rejects with the driver's error when the driver failed.
C7_QueryReleasesOnce ==
    \A o \in Queries :
      /\ (pc[o] = "done" /\ Acquired(o)) =>
            /\ pool.lease[o] = "released"
            /\ \/ log[o] = <<"audit", "dispatch", "release">> /\ outcome[o] = "ok"
               \/ log[o] = <<"audit", "dispatch_failed", "release">> /\ outcome[o] = ErrDriver
               \/ log[o] = <<"audit_failed", "release">> /\ outcome[o] = ErrAudit
      /\ (pc[o] = "done" /\ ~Acquired(o)) => log[o] = <<>> /\ outcome[o] = ErrPool
      /\ pc[o] # "done" => log[o] = <<>> /\ outcome[o] = "pending"

\* a query whose dispatch failed in the driver rejected with the driver's error
C7_Witness ==
    \E o \in Queries : outcome[o] = ErrDriver /\ pool.lease[o] = "released"

\* C8: no operation dispatches a query on a raw connection whose lease it
\* does not hold at that moment, and no raw connection is leased to two
\* operations at once.
C8_OnlyLeaseHolderDispatches ==
    /\ stray = {}
    /\ \A o, q \in LeasesHeld : o # q => pool.conn[o] # pool.conn[q]

\* C9: audit calls and dispatches pair up: no operation has dispatched more
\* queries than were audited, and an operation that has ended (with no
\* transaction-scoped stream still waiting for its first next()) has audited
\* exactly as many queries as it dispatched.
C9_AuditPerDispatch ==
    \A o \in Ops :
      /\ Dispatches(o) <= Audits(o)
      /\ (pc[o] = "done" /\ ts[o] # "created") => Audits(o) = Dispatches(o)

\* every transactional function has settled and every stream was exhausted,
\* closed or dropped
Quiescent ==
    \A o \in Ops : kind[o] # "none" => pc[o] \in {"done", "dropped"} /\ fnSt[o] # "running"

\* C10: dispose() does not hang: once every transactional function has
\* settled and every stream was exhausted, closed or dropped (and no
\* release-timeout is still pending), the drain has nothing left to wait for;
\* it does not complete while a lease is held, and when it has completed every
\* raw connection the pool opened is closed.
C10_DisposeCompletes ==
    /\ (disposeSt = "draining" /\ Quiescent /\ (releaseTimeoutOn => LeasesHeld = {}))
          => Drained(pool)
    /\ disposeSt = "done" => LeasesHeld = {} /\ OpenConns = {}

\* C11: what a pool-level stream has yielded is always a prefix of the driver's
\* row sequence (each row once, in the driver's order, which is the order of
\* insertion), and a stream that ended normally has yielded all of it.
C11_StreamYieldsDriverRows ==
    \A o \in Streams :
      LET rows == DriverRows(nrows[o]) IN
      /\ Len(yielded[o]) <= nrows[o]
      /\ Len(yielded[o]) = pos[o]
      /\ yielded[o] = SubSeq(rows, 1, Len(yielded[o]))
      /\ outcome[o] = "ok" => yielded[o] = rows
      /\ pc[o] = "yielded" => Len(yielded[o]) >= 1

\* a stream over more than one row was consumed to its end
C11_Witness ==
    \E o \in Streams : outcome[o] = "ok" /\ Len(yielded[o]) > 1
                       /\ yielded[o] = DriverRows(nrows[o])

\* what tx itself did on its connection and lease: how often each
\* transaction-control statement and release() appear in its log
TxTrace(lg) == [e \in Control \cup {"release"} |-> Count(lg, e)]

C13_TimeoutSetsAborted ==
    \A o \in Txs : pool.lease[o] = "timedout" => aborted[o]

\* C14: on a transaction whose aborted flag is set, a query issued through the
\* transaction-scoped interface is never dispatched: no dispatch follows an
\* audit that follows the setting of the flag, and a stream issued after the
\* flag was set neither yields a row nor ends normally.
C14_AbortedRefusesAll ==
    \A o \in Txs :
      \A i, j \in 1..Len(log[o]) :
        (i < j /\ log[o][i] = "aborted" /\ log[o][j] = "audit") =>
           /\ ts[o] \notin {"iter", "done"}
           /\ \A k \in (j + 1)..Len(log[o]) :
                 log[o][k] \notin {"dispatch", "dispatch_failed"}

\* C15: a transaction whose lease the release-timeout reclaimed before its
\* continuation ran never dispatches COMMIT, and fails with "Transaction
\* aborted", also when fn had settled by then.
C15_AbortWinsTie ==
    \A o \in Txs :
      pool.lease[o] = "timedout" =>
         /\ ~Has(o, "COMMIT") /\ ~Has(o, "COMMIT_failed")
         /\ pc[o] = "done" => outcome[o] = ErrAborted

\* C16: a connection the release-timeout hook disposed is never reusable and
\* never handed out: every idle connection and every connection under a held
\* lease is open, and the connection of a reclaimed lease is neither idle nor
\* held by anyone, also after the holder's late release().
C16_DisposedNeverReused ==
    /\ \A c \in pool.idle : pool.st[c] = "open"
    /\ \A o \in Ops : Held(o) => pool.st[pool.conn[o]] = "open"
    /\ \A o \in Ops :
         pool.lease[o] = "timedout" =>
            /\ pool.st[pool.conn[o]] = "disposed"
            /\ pool.conn[o] \notin pool.idle
            /\ \A q \in Ops : Held(q) => pool.conn[q] # pool.conn[o]

\* on a pool of one connection, a transaction released its reclaimed lease and
\* another operation holds a connection opened afterwards
C16_Witness ==
    /\ maxSize = 1
    /\ \E o \in Txs, q \in Ops :
         /\ pool.lease[o] = "timedout" /\ Releases(o) = 1
         /\ Held(q) /\ pool.conn[q] > pool.conn[o]

\* a step of the transaction-scoped stream of o (its creation or a next())
TxStreamStepped(o) == ts'[o] # ts[o] \/ pos'[o] # pos[o]

\* C17: a step of a transaction-scoped stream leaves the pool and the leases
\* as they are and calls no release(); while the aborted flag is set no row is
\* yielded; the next() that finds the flag set while the driver has a further
\* row raises "Transaction aborted" (unless the driver itself raises), and a
\* stream that raised it had a row left to yield.
C17_TxStreamChecksAborted ==
    /\ [](\A o \in Txs : ts[o] = "aborted" => aborted[o] /\ pos[o] < nrows[o])
    /\ [][\A o \in Txs :
            /\ TxStreamStepped(o) =>
                  pool' = pool /\ Count(log'[o], "release") = Releases(o)
            /\ aborted[o] => pos'[o] = pos[o]
            /\ (aborted[o] /\ ts[o] = "iter" /\ pos[o] < nrows[o] /\ TxStreamStepped(o)) =>
                  ts'[o] \in {"aborted", "failed"}]_vars

\* the flag was set after the first row was yielded, and the stream raised
\* "Transaction aborted" with a row of the driver still to come
C17_Witness ==
    \E o \in Txs : ts[o] = "aborted" /\ pos[o] >= 1 /\ pos[o] < nrows[o]

\* the transaction-control statements tx has handed to the driver
ControlDispatches(o) == Cardinality({i \in 1..Len(log[o]) : log[o][i] \in Control})

\* C18: the audit callback has run once for every BEGIN, COMMIT and ROLLBACK
\* that tx dispatched, besides once for every user query the transaction
\* interface accepted.
C18_ControlAudited ==
    \A o \in Txs :
      Audits(o) + Count(log[o], "refused") = ControlDispatches(o) + fnSteps[o]

\* a release-timeout step leaves the outcome and the race of every settled
\* transaction alone, and the abort wins a race in no other step than the
\* release-timeout of that transaction's own lease
C19_OnlyHolderAborted ==
    \A o \in Txs :
      /\ pc[o] = "done" => outcome'[o] = outcome[o] /\ race'[o] = race[o]
      /\ (race[o] # "aborted" /\ race'[o] = "aborted") =>
            Held(o) /\ pool'.lease[o] = "timedout"

\* C19: the controller a transaction attached stays on the connection after
\* the transaction ended, but a controller whose race is still pending always
\* belongs to the transaction holding that connection; so a release-timeout on
\* a later lease of the connection never changes a settled transaction and
\* aborts no transaction but the one whose lease it reclaims.
C19_StaleHandleHarmless ==
    /\ [](\A c \in Conns :
            (ctrl[c] # NoOp /\ race[ctrl[c]] = "pending") =>
               Held(ctrl[c]) /\ pool.conn[ctrl[c]] = c)
    /\ [][C19_OnlyHolderAborted]_vars

\* the release-timeout reclaimed a later lease of a connection that still
\* carries the controller of a committed transaction
C19_Witness ==
    \E t \in Txs, q \in Ops :
      /\ q # t
      /\ pc[t] = "done" /\ outcome[t] = "ok"
      /\ pool.conn[q] = pool.conn[t] /\ pool.lease[q] = "timedout"
      /\ ctrl[pool.conn[q]] = t

\* C20: a tx() or query() whose getConnection failed has dispatched nothing,
\* holds no connection and has not called release(); a tx() whose BEGIN failed
\* never invoked fn, dispatched no user query, attempted one ROLLBACK, released
\* its lease once and rejects with the BEGIN error; a query() whose audit
\* threw dispatched nothing and released its lease once.
C20_EarlyFailuresLeaveNothing ==
    /\ \A o \in Txs \cup Queries :
         outcome[o] = ErrPool =>
            log[o] = <<>> /\ ~Acquired(o) /\ pool.lease[o] = "refused"
    /\ \A o \in Txs :
         /\ Has(o, "BEGIN_failed") => pc[o] = "done" /\ outcome[o] = ErrBegin
         /\ outcome[o] = ErrBegin =>
               /\ log[o] = <<"BEGIN_failed", "ROLLBACK", "release">>
               /\ fnSt[o] = "none" /\ fnSteps[o] = 0 /\ ts[o] = "none"
               /\ pool.lease[o] = "released"
    /\ \A o \in Queries :
         /\ Has(o, "audit_failed") => pc[o] = "done" /\ outcome[o] = ErrAudit
         /\ outcome[o] = ErrAudit =>
               log[o] = <<"audit_failed", "release">> /\ pool.lease[o] = "released"

\* a tx() failed at BEGIN and a query() failed at its audit
C20_Witness ==
    /\ \E o \in Txs : outcome[o] = ErrBegin /\ Releases(o) = 1
    /\ \E o \in Queries : outcome[o] = ErrAudit /\ Releases(o) = 1

====
